---- MODULE Spec2Model ----
(***************************************************************************)
(* Model of src/project.c: a journaling tool over a fixed-layout disk      *)
(* image.  `create <name>` stages four full-block images and a commit      *)
(* record in the on-disk journal; `install` scans the journal and resets   *)
(* it.  One action is one invocation of the tool (one process run), which  *)
(* may be cut short by a kill or by a failing write.                       *)
(***************************************************************************)
EXTENDS Integers, Sequences, FiniteSets, TLC

\* ---------------------------------------------------------------- layout
BLOCK_SIZE == 4096
INODE_SIZE == 128
DIRECT_POINTERS == 8
NAME_LEN == 28
FS_MAGIC == 1448298067
JOURNAL_MAGIC == 1246907980
REC_DATA == 53466
REC_COMMIT == 49374
JOURNAL_BLOCK_IDX == 1
JOURNAL_BLOCKS == 16
INODE_BLOCKS == 2
DATA_BLOCKS == 64
INODE_BMAP_IDX == JOURNAL_BLOCK_IDX + JOURNAL_BLOCKS
DATA_BMAP_IDX == INODE_BMAP_IDX + 1
INODE_START_IDX == DATA_BMAP_IDX + 1
DATA_START_IDX == INODE_START_IDX + INODE_BLOCKS
TOTAL_BLOCKS == DATA_START_IDX + DATA_BLOCKS

DIRENT_SIZE == 32
JH_SIZE == 8
DATA_RECORD_SIZE == 4104
COMMIT_RECORD_SIZE == 4
INODE_CAPACITY == 64
INODES_PER_BLOCK == 32
FILE_TYPE == 1

\* the superblock of a formatted image (struct superblock)
superblock ==
  [block_size |-> BLOCK_SIZE, total_blocks |-> TOTAL_BLOCKS,
   inode_count |-> INODE_CAPACITY, journal_block |-> JOURNAL_BLOCK_IDX,
   inode_bitmap |-> INODE_BMAP_IDX, data_bitmap |-> DATA_BMAP_IDX,
   inode_start |-> INODE_START_IDX, data_start |-> DATA_START_IDX]

\* ---------------------------------------------------------------- bounds
MaxOps == 4
MaxFault == 11
MaxBits == 9
LongNameLen == 30
Slack == 2

\* ------------------------------------------------------- byte arithmetic
Pow2(k) == 2 ^ k

\* a block seen as bytes is a sparse map: byte index -> nonzero byte value
ByteAt(bmap, j) == IF j \in DOMAIN bmap THEN bmap[j] ELSE 0

\* bmap[i/8] & (1 << (i%8))
BitIsSet(bmap, i) == (ByteAt(bmap, i \div 8) \div Pow2(i % 8)) % 2 = 1

RECURSIVE find_free_from(_, _, _)
find_free_from(bmap, i, max) ==
  IF ~(i < max) THEN -1
  ELSE IF ~BitIsSet(bmap, i) THEN i
  ELSE find_free_from(bmap, i + 1, max)

\* (mutant) the scan runs one bit too far
bitmap_find_free_inclusive(bmap, max) == find_free_from(bmap, 0, max + 1)

bitmap_find_free(bmap, max) == find_free_from(bmap, 0, max)

\* bmap[idx/8] |= (1 << (idx%8))
bitmap_set(bmap, idx) ==
  LET j == idx \div 8
      old == ByteAt(bmap, j)
      new == IF BitIsSet(bmap, idx) THEN old ELSE old + Pow2(idx % 8)
  IN [b \in DOMAIN bmap \cup {j} |-> IF b = j THEN new ELSE bmap[b]]

\* ------------------------------------------------------------ disk image
\* A block has three views: raw bytes (bitmaps), inode slots, dirent slots.
\* Each view is sparse: what is absent is zero.
ZeroBlock == [bytes |-> <<>>, inodes |-> <<>>, ents |-> <<>>]
BitmapBlock(b) == [bytes |-> b, inodes |-> <<>>, ents |-> <<>>]
InodeBlock(i) == [bytes |-> <<>>, inodes |-> i, ents |-> <<>>]
DirBlock(e) == [bytes |-> <<>>, inodes |-> <<>>, ents |-> e]

NoDirect == [k \in 1..DIRECT_POINTERS |-> 0]

\* struct inode
inode(type, links, size, direct, ctime, mtime) ==
  [type |-> type, links |-> links, size |-> size, direct |-> direct,
   ctime |-> ctime, mtime |-> mtime]

ZeroInode == inode(0, 0, 0, NoDirect, 0, 0)

InodeAt(blk, slot) == IF slot \in DOMAIN blk.inodes THEN blk.inodes[slot] ELSE ZeroInode

\* strncpy(de.name, filename, NAME_LEN - 1); de.name[NAME_LEN - 1] = '\0'
StoredName(filename) ==
  [i \in 1..NAME_LEN |->
     IF i <= NAME_LEN - 1 /\ i <= Len(filename) THEN filename[i] ELSE 0]

\* struct dirent
dirent(ino, filename) == [inode |-> ino, name |-> StoredName(filename)]

\* the 32 bytes of a dirent as laid out in memory (little endian), 0-based
DirentBytes(de) ==
  [j \in 0..(DIRENT_SIZE - 1) |->
     IF j < 4 THEN (de.inode \div Pow2(8 * j)) % 256 ELSE de.name[j - 3]]

LE16(b, k) == b[k] + 256 * b[k + 1]
LE32(b, k) == b[k] + 256 * b[k + 1] + 65536 * b[k + 2] + 16777216 * b[k + 3]

\* struct rec_header / data_record / commit_record as they lie in the journal
data_record(block_no, data) ==
  [type |-> REC_DATA, size |-> DATA_RECORD_SIZE, block_no |-> block_no, data |-> data]
commit_record ==
  [type |-> REC_COMMIT, size |-> COMMIT_RECORD_SIZE, block_no |-> 0, data |-> ZeroBlock]

\* struct journal_header
journal_header(magic, used) == [magic |-> magic, nbytes_used |-> used]

JOURNAL_BYTES == JOURNAL_BLOCKS * BLOCK_SIZE
\* (mutant) the journal's start block left out of the offset
JournalAddr_NoBase(off) == off

JournalAddr(off) == JOURNAL_BLOCK_IDX * BLOCK_SIZE + off

LiveBlocks == INODE_BMAP_IDX..(TOTAL_BLOCKS - 1)

\* ------------------------------------------------------------- variables
VARIABLES
  sb_magic,   \* superblock magic as stored in block 0
  jh,         \* journal header: [magic, nbytes_used]
  journal,    \* journal bytes after the header: offset -> record lying there
  disk,       \* blocks 17..84: inode bitmap, data bitmap, inode table, data
  base,       \* history: the live blocks when the journal was last reset
  last,       \* history: what the last invocation did
  nops,       \* number of invocations so far
  faulted,    \* an invocation has been cut short already
  t_bits, t_bmap, t_cap, t_found, t_marked, t_next, t_pc,  \* the allocator on its own
  arg,        \* the record handed to append_to_journal on its own
  torn,       \* offsets of journal records that a failed write left written in part
  aborted     \* offsets of data records appended by a create that did not commit

vars == <<sb_magic, jh, journal, disk, base, last, nops, faulted,
          t_bits, t_bmap, t_cap, t_found, t_marked, t_next, t_pc, arg, torn, aborted>>
image_vars == <<sb_magic, jh, journal, disk, base, last, nops, faulted>>
alloc_vars == <<t_bits, t_bmap, t_cap, t_found, t_marked, t_next, t_pc>>
unit_vars == <<alloc_vars, arg>>
track_vars == <<torn, aborted>>

\* ------------------------------------------------- one running process
\* m = [jh, journal, disk, left, dead, log, short, reads, torn]: the image
\* as the process has left it so far, the number of writes it may still
\* complete (-1: any number), whether it has been stopped, the writes it
\* completed, whether the write it stops at is cut short (write() returns
\* less than asked and the process dies) rather than never started, the
\* journal offsets it read records at, and the records left written in part.
Started(h, j, d, left, t) ==
  [jh |-> h, journal |-> j, disk |-> d, left |-> left,
   dead |-> FALSE, log |-> <<>>, short |-> FALSE, reads |-> <<>>, torn |-> t]

Process(left) == Started(jh, journal, disk, left, torn)

\* one write(2) call: it either completes or the process stops before it
WriteStep(m, after, addr, len, src) ==
  IF m.dead THEN m
  ELSE IF m.left = 0 THEN [m EXCEPT !.dead = TRUE]
  ELSE [after EXCEPT !.left = IF m.left > 0 THEN m.left - 1 ELSE m.left,
                     !.log = Append(m.log, [addr |-> addr, len |-> len, src |-> src])]

read_block(m, blk) == IF blk \in LiveBlocks THEN m.disk[blk] ELSE ZeroBlock

write_block(m, blk, buf, src) ==
  WriteStep(m,
            [m EXCEPT !.disk = IF blk \in LiveBlocks
                                 THEN [m.disk EXCEPT ![blk] = buf] ELSE m.disk],
            blk * BLOCK_SIZE, BLOCK_SIZE, src)

write_journal_header(m, h) ==
  WriteStep(m, [m EXCEPT !.jh = h], JournalAddr(0), JH_SIZE, -1)

\* the journal bytes after `size` bytes of `record` are written at `off`:
\* a record that started inside the written range is no longer there
PutRecord(j, off, record, size) ==
  LET gone == {p \in DOMAIN j : off <= p /\ p < off + size}
  IN [p \in (DOMAIN j \ gone) \cup {off} |-> IF p = off THEN record ELSE j[p]]

\* A write of a data record that is cut short leaves the record's head
\* (rec_header and block_no) over a payload that is not the record's; a
\* 4-byte commit record is written whole or not at all.
write_record(m, off, record, size) ==
  IF ~m.dead /\ m.left = 0 /\ m.short /\ size > BLOCK_SIZE
    THEN [m EXCEPT !.dead = TRUE,
                   !.journal = PutRecord(m.journal, off,
                                 [record EXCEPT !.data = IF off \in DOMAIN m.journal
                                                           THEN m.journal[off].data
                                                           ELSE ZeroBlock],
                                 size - BLOCK_SIZE),
                   !.torn = @ \cup {off}]
    ELSE WriteStep(m, [m EXCEPT !.journal = PutRecord(m.journal, off, record, size),
                                !.torn = {p \in @ : p < off \/ p >= off + size}],
                   JournalAddr(off), size, -1)

\* (mutant) a fresh header is written whatever the magic is
init_journal_always(m) == write_journal_header(m, journal_header(JOURNAL_MAGIC, JH_SIZE))

init_journal_if_needed(m) ==
  IF m.jh.magic # JOURNAL_MAGIC
    THEN write_journal_header(m, journal_header(JOURNAL_MAGIC, JH_SIZE))
    ELSE m

\* (mutant) the header is updated before the record is written
append_to_journal_header_first(m, record, size) ==
  LET h == m.jh IN
  IF h.nbytes_used + size > JOURNAL_BLOCKS * BLOCK_SIZE
    THEN [m |-> m, rc |-> -1]
    ELSE LET m1 == write_journal_header(m, [h EXCEPT !.nbytes_used = h.nbytes_used + size])
             m2 == write_record(m1, h.nbytes_used, record, size)
         IN [m |-> m2, rc |-> 0]

\* (mutant) the size of the record is left out of the capacity check
append_to_journal_nosize(m, record, size) ==
  LET h == m.jh IN
  IF h.nbytes_used > JOURNAL_BLOCKS * BLOCK_SIZE
    THEN [m |-> m, rc |-> -1]
    ELSE LET m1 == write_record(m, h.nbytes_used, record, size)
             m2 == write_journal_header(m1, [h EXCEPT !.nbytes_used = h.nbytes_used + size])
         IN [m |-> m2, rc |-> 0]

\* (mutant) a record that fills the journal exactly is refused
append_to_journal_strict(m, record, size) ==
  LET h == m.jh IN
  IF h.nbytes_used + size >= JOURNAL_BLOCKS * BLOCK_SIZE
    THEN [m |-> m, rc |-> -1]
    ELSE LET m1 == write_record(m, h.nbytes_used, record, size)
             m2 == write_journal_header(m1, [h EXCEPT !.nbytes_used = h.nbytes_used + size])
         IN [m |-> m2, rc |-> 0]

\* returns [m, rc]: rc = -1 when the journal is full, 0 otherwise
append_to_journal(m, record, size) ==
  LET h == m.jh IN
  IF h.nbytes_used + size > JOURNAL_BLOCKS * BLOCK_SIZE
    THEN [m |-> m, rc |-> -1]
    ELSE LET m1 == write_record(m, h.nbytes_used, record, size)
             m2 == write_journal_header(m1, [h EXCEPT !.nbytes_used = h.nbytes_used + size])
         IN [m |-> m2, rc |-> 0]

\* if (append_to_journal(...) < 0) return;  for each record in turn
RECURSIVE append_each(_, _)
append_each(m, recs) ==
  IF recs = <<>> \/ m.dead THEN [m |-> m, rc |-> 0]
  ELSE LET a == append_to_journal(m, Head(recs), Head(recs).size)
       IN IF a.rc < 0 THEN a ELSE append_each(a.m, Tail(recs))

\* --------------------------------------------------------------- create
Put(f, k, v) == [x \in DOMAIN f \cup {k} |-> IF x = k THEN v ELSE f[x]]

DIR_CAPACITY == BLOCK_SIZE \div DIRENT_SIZE

\* de[entries] with entries >= 128 stores 32 bytes past the end of
\* new_dir_block.  What lies there is the compiler's choice; the outcomes:
\*   "dead"             storage that is not read again (the dirent is lost)
\*   "new_inode_bmap"   the head of the new inode bitmap image
\*   "new_inode_block"  the head of the new inode's table block image
\*   "inode_block_buf"  the head of the root inode's block as read
\*   "abort"            the canary or return address: killed on return
StrayStores == {"dead", "new_inode_bmap", "new_inode_block", "inode_block_buf", "abort"}

\* the first 32 bytes of a byte-view block overwritten by a dirent
SmashBytes(bmap, de) ==
  LET b == DirentBytes(de)
      keep == {j \in DOMAIN bmap : j >= DIRENT_SIZE}
      put == {j \in 0..(DIRENT_SIZE - 1) : b[j] # 0}
  IN [j \in keep \cup put |-> IF j < DIRENT_SIZE THEN b[j] ELSE bmap[j]]

\* the first 32 bytes of inode slot 0 overwritten by a dirent:
\* type(2) links(2) size(4) direct[0..5](24)
SmashInode0(blk, de) ==
  LET b == DirentBytes(de)
      old == InodeAt(blk, 0)
      new == inode(LE16(b, 0), LE16(b, 2), LE32(b, 4),
                   [k \in 1..DIRECT_POINTERS |->
                      IF k <= 6 THEN LE32(b, 4 + 4 * k) ELSE old.direct[k]],
                   old.ctime, old.mtime)
  IN [blk EXCEPT !.inodes = Put(blk.inodes, 0, new)]

\* the five records cmd_create builds, and the slot it chose
\* (tm = <<ctime, mtime, root mtime>>, the three time(NULL) calls)
create_records(m, filename, tm, stray) ==
  LET inode_bmap == read_block(m, superblock.inode_bitmap).bytes
      new_ino == bitmap_find_free(inode_bmap, INODE_CAPACITY)
      bmap0 == bitmap_set(inode_bmap, new_ino)
      buf0 == read_block(m, superblock.inode_start)
      root0 == InodeAt(buf0, 0)
      dir_block == read_block(m, root0.direct[1])
      new_inode == inode(FILE_TYPE, 1, 0, NoDirect, tm[1], tm[2])
      inode_block_num == superblock.inode_start + (new_ino \div INODES_PER_BLOCK)
      slot == new_ino % INODES_PER_BLOCK
      blk0 == read_block(m, inode_block_num)
      new_blk0 == [blk0 EXCEPT !.inodes = Put(blk0.inodes, slot, new_inode)]
      entries == root0.size \div DIRENT_SIZE
      de == dirent(new_ino, filename)
      inside == entries < DIR_CAPACITY
      hit == IF inside THEN "none" ELSE stray
      new_dir_block == IF inside
                         THEN [dir_block EXCEPT !.ents = Put(dir_block.ents, entries, de)]
                         ELSE dir_block
      new_inode_bmap == IF hit = "new_inode_bmap" THEN SmashBytes(bmap0, de) ELSE bmap0
      new_inode_block == IF hit = "new_inode_block" THEN SmashInode0(new_blk0, de) ELSE new_blk0
      inode_block_buf == IF hit = "inode_block_buf" THEN SmashInode0(buf0, de) ELSE buf0
      root == InodeAt(inode_block_buf, 0)
      \* uint32_t size: below 2^31 here (a formatted root is at most one block,
      \* a smashed one is four 7-bit name bytes), so += 32 cannot wrap
      new_root == [root EXCEPT !.size = root.size + DIRENT_SIZE, !.mtime = tm[3]]
      new_root_inode_block ==
        [inode_block_buf EXCEPT !.inodes = Put(inode_block_buf.inodes, 0, new_root)]
  IN [new_ino |-> new_ino, entries |-> entries, hit |-> hit,
      recs |-> << data_record(superblock.inode_bitmap, BitmapBlock(new_inode_bmap)),
                  data_record(inode_block_num, new_inode_block),
                  data_record(root.direct[1], new_dir_block),
                  data_record(superblock.inode_start, new_root_inode_block),
                  commit_record >>]

\* returns [m, status, new_ino, entries]
cmd_create(m0, filename, tm, stray) ==
  LET m == init_journal_if_needed(m0)
      free == bitmap_find_free(read_block(m, superblock.inode_bitmap).bytes, INODE_CAPACITY)
  IN IF m.dead THEN [m |-> m, status |-> "stopped", new_ino |-> -1, entries |-> -1]
     ELSE IF free < 0 THEN [m |-> m, status |-> "no_inode", new_ino |-> -1, entries |-> -1]
     ELSE LET c == create_records(m, filename, tm, stray)
              a == append_each(m, c.recs)
          IN [m |-> a.m,
              status |-> IF a.m.dead THEN "stopped"
                         ELSE IF a.rc < 0 THEN "journal_full"
                         ELSE IF c.hit = "abort" THEN "smashed"
                         ELSE "created",
              new_ino |-> c.new_ino, entries |-> c.entries]

\* -------------------------------------------------------------- install
NoRecord == [type |-> 0, size |-> 0, block_no |-> 0, data |-> ZeroBlock]

\* the record whose header lies at `pos`
record_at(j, pos) == IF pos \in DOMAIN j THEN j[pos] ELSE NoRecord

\* (mutant) the flag starts out set
in_transaction_starts_set == TRUE

\* int in_transaction = 0;  (before the loop)
in_transaction_at_start == FALSE

\* (mutant) the flag is left set by a commit record
in_transaction_left_set == TRUE

\* in the REC_COMMIT branch: in_transaction = 1; ... in_transaction = 0;
in_transaction_after_commit == FALSE

\* (mutant) the empty journal is not recognised
JournalNeverEmpty(h) == FALSE

\* if (jh.nbytes_used == sizeof(jh)) { ... return; }
JournalIsEmpty(h) == h.nbytes_used = JH_SIZE

\* while (pos < jh.nbytes_used) {...}: returns [m, brk], brk = left by break
RECURSIVE install_loop(_, _, _, _)
install_loop(m, pos, in_transaction, nbytes_used) ==
  IF m.dead \/ ~(pos < nbytes_used) THEN [m |-> m, brk |-> FALSE]
  ELSE LET rh == record_at(m.journal, pos)
           mr == [m EXCEPT !.reads = Append(@, pos)]
       IN
       IF rh.type = REC_DATA
         THEN install_loop(IF in_transaction
                             THEN write_block(mr, rh.block_no, rh.data, pos) ELSE mr,
                           pos + rh.size, in_transaction, nbytes_used)
       ELSE IF rh.type = REC_COMMIT
         THEN install_loop(mr, pos + rh.size, in_transaction_after_commit, nbytes_used)
       ELSE [m |-> mr, brk |-> TRUE]

\* (mutant) the journal is marked empty before it is replayed as well
cmd_install_reset_first(m) ==
  LET h == m.jh IN
  IF h.magic # JOURNAL_MAGIC THEN [m |-> m, status |-> "bad_journal", brk |-> FALSE]
  ELSE IF JournalIsEmpty(h) THEN [m |-> m, status |-> "empty", brk |-> FALSE]
  ELSE LET m1 == write_journal_header(m, [h EXCEPT !.nbytes_used = JH_SIZE])
           l == install_loop(m1, JH_SIZE, in_transaction_at_start, h.nbytes_used)
           m2 == write_journal_header(l.m, [h EXCEPT !.nbytes_used = JH_SIZE])
       IN [m |-> m2, status |-> IF m2.dead THEN "stopped" ELSE "applied", brk |-> l.brk]

\* returns [m, status, brk]
cmd_install(m) ==
  LET h == m.jh IN
  IF h.magic # JOURNAL_MAGIC THEN [m |-> m, status |-> "bad_journal", brk |-> FALSE]
  ELSE IF JournalIsEmpty(h) THEN [m |-> m, status |-> "empty", brk |-> FALSE]
  ELSE LET l == install_loop(m, JH_SIZE, in_transaction_at_start, h.nbytes_used)
           m2 == write_journal_header(l.m, [h EXCEPT !.nbytes_used = JH_SIZE])
       IN [m |-> m2, status |-> IF m2.dead THEN "stopped" ELSE "applied", brk |-> l.brk]

\* ----------------------------------------------------------------- main
KILLED == 0 - 1

\* the process's exit status: main returns 0 after cmd_create / cmd_install
\* return; die() and the magic checks exit(1); a killed process has none
exit_status(status, fault) ==
  CASE status \in {"created", "journal_full", "empty", "applied"} -> 0
    [] status \in {"no_inode", "bad_journal", "bad_sb", "usage"} -> 1
    [] status = "stopped" -> IF fault = "eio" THEN 1 ELSE KILLED
    [] status = "smashed" -> KILLED

Names == { <<102, 111, 111>>, [i \in 1..LongNameLen |-> 97] }
Faults == {"none", "kill", "eio"}

NoOp ==
  [cmd |-> "none", name |-> <<>>, status |-> "none", exit |-> 0, fault |-> "none",
   log |-> <<>>, new_ino |-> 0 - 1, entries |-> 0 - 1, brk |-> FALSE,
   pre_jh |-> journal_header(0, 0), prev_cmd |-> "none", prev_status |-> "none",
   reads |-> <<>>]

Ran(cmd, name, status, fault, log, new_ino, entries, brk) ==
  [cmd |-> cmd, name |-> name, status |-> status, exit |-> exit_status(status, fault),
   fault |-> fault, log |-> log, new_ino |-> new_ino, entries |-> entries, brk |-> brk,
   pre_jh |-> jh, prev_cmd |-> last.cmd, prev_status |-> last.status,
   reads |-> <<>>]

\* The budget of a run.  Three kinds of invocation are explored only as the
\* last one of a run: one refused for its arguments (it leaves the image
\* alone), one that dies on a failed write and leaves the image as a kill at
\* the same write does (one that leaves a record written in part goes on),
\* and a create whose stray store hit something (the runs that go on are
\* those of the create whose stray store hit nothing: the same records with
\* other payloads).
Admitted(fault, k) ==
  /\ nops < MaxOps
  /\ fault = "none" => k = 0
  /\ fault # "none" => ~faulted

Budget(fault, k, final) ==
  /\ Admitted(fault, k)
  /\ nops' = IF final THEN MaxOps ELSE nops + 1

\* the journal offsets of the records among the completed writes `log`
Appended(log) == {log[i].addr - JournalAddr(0) : i \in DOMAIN log} \ {0}

\* the data records that creates have appended without their commit record
\* and that are still in the journal after a create that completed the
\* writes `log` and ended with `status`
Aborted(status, j, log, t) ==
  LET kept == {p \in aborted : p \in DOMAIN j /\ p \notin Appended(log)}
      mine == {p \in Appended(log) \cup t : p \in DOMAIN j /\ j[p].type = REC_DATA}
  IN IF status \in {"created", "smashed"} THEN kept ELSE kept \cup mine

\* time(NULL): the clock moves on between invocations
Now == nops + 1

RootFull == InodeAt(disk[superblock.inode_start], 0).size \div DIRENT_SIZE >= DIR_CAPACITY

\* tool <img> create <filename>
Create(filename, tm, fault, k, stray) ==
  /\ Admitted(fault, k)
  /\ stray # "dead" => RootFull
  /\ IF sb_magic # FS_MAGIC
       THEN /\ fault = "none" /\ stray = "dead"
            /\ nops' = nops + 1
            /\ last' = Ran("create", filename, "bad_sb", fault, <<>>, 0 - 1, 0 - 1, FALSE)
            /\ UNCHANGED <<jh, journal, disk, faulted, track_vars>>
       ELSE \E r \in {cmd_create([Process(IF fault = "none" THEN 0 - 1 ELSE k)
                                     EXCEPT !.short = (fault = "eio")],
                                  filename, tm, stray)} :
            /\ fault # "none" => r.status = "stopped"
            /\ nops' = IF stray # "dead" \/ (fault = "eio" /\ r.m.torn = torn)
                         THEN MaxOps ELSE nops + 1
            /\ torn' = r.m.torn
            /\ aborted' = Aborted(r.status, r.m.journal, r.m.log, r.m.torn)
            /\ jh' = r.m.jh
            /\ journal' = r.m.journal
            /\ disk' = r.m.disk
            /\ faulted' = (faulted \/ r.status = "stopped")
            /\ last' = Ran("create", filename, r.status, fault, r.m.log, r.new_ino, r.entries, FALSE)
  /\ UNCHANGED <<sb_magic, base, unit_vars>>

\* tool <img> install
Install(fault, k) ==
  /\ Budget(fault, k, fault = "eio")
  /\ IF sb_magic # FS_MAGIC
       THEN /\ fault = "none"
            /\ last' = Ran("install", <<>>, "bad_sb", fault, <<>>, 0 - 1, 0 - 1, FALSE)
            /\ UNCHANGED <<jh, journal, disk, base, faulted>>
       ELSE \E r \in {cmd_install(Process(IF fault = "none" THEN 0 - 1 ELSE k))} :
            /\ fault # "none" => r.status = "stopped"
            /\ jh' = r.m.jh
            /\ journal' = r.m.journal
            /\ disk' = r.m.disk
            /\ base' = IF r.status = "applied" THEN r.m.disk ELSE base
            /\ faulted' = (faulted \/ r.status = "stopped")
            /\ last' = [Ran("install", <<>>, r.status, fault, r.m.log, 0 - 1, 0 - 1, r.brk)
                           EXCEPT !.reads = r.m.reads]
  /\ UNCHANGED <<sb_magic, unit_vars, track_vars>>

\* tool <img>;  tool <img> create;  tool <img> frobnicate
Usage(kind) ==
  /\ Budget("none", 0, TRUE)
  /\ last' = Ran(kind, <<>>,
                 IF kind # "noargs" /\ sb_magic # FS_MAGIC THEN "bad_sb" ELSE "usage",
                 "none", <<>>, 0 - 1, 0 - 1, FALSE)
  /\ UNCHANGED <<sb_magic, jh, journal, disk, base, faulted, unit_vars, track_vars>>

\* ------------------------------------------------------ formatted images
RootDirect == [k \in 1..DIRECT_POINTERS |-> IF k = 1 THEN DATA_START_IDX ELSE 0]
\* the root's type tag is the formatter's; the tool never reads it
RootInode(nentries) == inode(FILE_TYPE + 1, 2, nentries * DIRENT_SIZE, RootDirect, 0, 0)
FileInode == inode(FILE_TYPE, 1, 0, NoDirect, 0, 0)

\* a root directory of n entries: ".", ".." and files
RootEntries(n) ==
  [e \in 0..(n - 1) |->
     IF e = 0 THEN dirent(0, <<46>>)
     ELSE IF e = 1 THEN dirent(0, <<46, 46>>)
     ELSE dirent(IF e - 1 < INODE_CAPACITY THEN e - 1 ELSE 1, <<103, e % 256>>)]

\* the first `n` inodes allocated, the root directory holding `nentries`
Formatted(n, nentries) ==
  [b \in LiveBlocks |->
     IF b = INODE_BMAP_IDX
       THEN BitmapBlock([j \in {x \in 0..7 : 8 * x < n} |->
                           IF 8 * j + 8 <= n THEN 255 ELSE Pow2(n - 8 * j) - 1])
     ELSE IF b = DATA_BMAP_IDX THEN BitmapBlock([j \in {0} |-> 1])
     ELSE IF b \in INODE_START_IDX..(DATA_START_IDX - 1)
       THEN LET first == (b - INODE_START_IDX) * INODES_PER_BLOCK IN
            InodeBlock([s \in {x \in 0..(INODES_PER_BLOCK - 1) : first + x < n} |->
                          IF first + s = 0 THEN RootInode(nentries) ELSE FileInode])
     ELSE IF b = DATA_START_IDX THEN DirBlock(RootEntries(nentries))
     ELSE ZeroBlock]

EmptyJournal == journal_header(JOURNAL_MAGIC, JH_SIZE)
NoJournal == journal_header(0, 0)

Image(magic, h, j, d) == [sb_magic |-> magic, jh |-> h, journal |-> j, disk |-> d]

\* an image whose journal holds one committed create followed by a record
\* of no known type (a damaged journal handed to the tool)
DamagedImage ==
  LET m0 == Started(EmptyJournal, <<>>, Formatted(1, 2), 0 - 1, {})
      r == cmd_create(m0, <<102>>, <<1, 1, 1>>, "dead")
      used == r.m.jh.nbytes_used
  IN Image(FS_MAGIC, journal_header(JOURNAL_MAGIC, used + COMMIT_RECORD_SIZE),
           PutRecord(r.m.journal, used, [NoRecord EXCEPT !.size = COMMIT_RECORD_SIZE],
                     COMMIT_RECORD_SIZE),
           r.m.disk)

\* an image on which three creates have run since the last install
RECURSIVE Created(_, _)
Created(m, n) ==
  IF n = 0 THEN m ELSE Created(cmd_create(m, <<102, 48 + n>>, <<n, n, n>>, "dead").m, n - 1)

LoadedImage ==
  LET m0 == Started(EmptyJournal, <<>>, Formatted(1, 2), 0 - 1, {})
      m == Created(m0, 3)
  IN Image(FS_MAGIC, m.jh, m.journal, m.disk)

Images ==
  { Image(FS_MAGIC, EmptyJournal, <<>>, Formatted(1, 2)),
    Image(FS_MAGIC, NoJournal, <<>>, Formatted(1, 2)),
    Image(FS_MAGIC, EmptyJournal, <<>>, Formatted(3, 4)),
    Image(FS_MAGIC, EmptyJournal, <<>>, Formatted(INODES_PER_BLOCK, INODES_PER_BLOCK + 1)),
    Image(FS_MAGIC, EmptyJournal, <<>>, Formatted(INODE_CAPACITY, INODE_CAPACITY + 1)),
    Image(FS_MAGIC, NoJournal, <<>>, Formatted(INODE_CAPACITY, INODE_CAPACITY + 1)),
    Image(FS_MAGIC, EmptyJournal, <<>>, Formatted(2, DIR_CAPACITY)),
    Image(0, EmptyJournal, <<>>, Formatted(1, 2)),
    DamagedImage,
    LoadedImage }

AllocIdle ==
  /\ t_bits = {} /\ t_bmap = <<>> /\ t_cap = 0 /\ t_found = 0 - 1
  /\ t_marked = <<>> /\ t_next = 0 - 1 /\ t_pc = "off"

Init ==
  /\ \E im \in Images :
       /\ sb_magic = im.sb_magic /\ jh = im.jh
       /\ journal = im.journal /\ disk = im.disk /\ base = im.disk
  /\ last = NoOp /\ nops = 0 /\ faulted = FALSE
  /\ AllocIdle
  /\ arg = NoRecord
  /\ torn = {} /\ aborted = {}

Next ==
  \/ \E f \in Names, tm \in {<<Now, Now, Now>>}, fault \in Faults, k \in 0..MaxFault, stray \in StrayStores :
       Create(f, tm, fault, k, stray)
  \/ \E fault \in Faults, k \in 0..MaxFault : Install(fault, k)
  \/ \E kind \in {"noargs", "noname", "unknown"} : Usage(kind)

Spec == Init /\ [][Next]_vars

\* ------------------------------------------------ the allocator on its own
\* the bitmap bytes in which exactly the bits of S are set
ByteOf(S, j) ==
  LET f[k \in 0..8] == IF k = 8 THEN 0
                       ELSE (IF 8 * j + k \in S THEN Pow2(k) ELSE 0) + f[k + 1]
  IN f[0]
BitsToBytes(S) == [j \in {i \div 8 : i \in S} |-> ByteOf(S, j)]

InitAlloc ==
  /\ \E im \in {Image(FS_MAGIC, EmptyJournal, <<>>, Formatted(1, 2))} :
       /\ sb_magic = im.sb_magic /\ jh = im.jh
       /\ journal = im.journal /\ disk = im.disk /\ base = im.disk
  /\ last = NoOp /\ nops = 0 /\ faulted = FALSE
  /\ t_bits \in SUBSET (0..(MaxBits - 1))
  /\ t_bmap = BitsToBytes(t_bits)
  /\ t_cap \in 0..MaxBits
  /\ t_found = 0 - 1 /\ t_marked = <<>> /\ t_next = 0 - 1 /\ t_pc = "idle"
  /\ arg = NoRecord
  /\ torn = {} /\ aborted = {}

\* new_ino = bitmap_find_free(inode_bmap, max)
FindFree ==
  /\ t_pc = "idle"
  /\ t_found' = bitmap_find_free(t_bmap, t_cap)
  /\ t_pc' = "found"
  /\ UNCHANGED <<image_vars, t_bits, t_bmap, t_cap, t_marked, t_next, arg, track_vars>>

\* bitmap_set(new_inode_bmap, new_ino), then a scan of the marked bitmap
MarkAndRescan ==
  /\ t_pc = "found" /\ t_found >= 0
  /\ t_marked' = bitmap_set(t_bmap, t_found)
  /\ t_next' = bitmap_find_free(t_marked', t_cap)
  /\ t_pc' = "marked"
  /\ UNCHANGED <<image_vars, t_bits, t_bmap, t_cap, t_found, arg, track_vars>>

NextAlloc == FindFree \/ MarkAndRescan

SpecAlloc == InitAlloc /\ [][NextAlloc]_vars

\* ----------------------------------------- the journal manager on its own
\* init_journal_if_needed and append_to_journal applied to journal headers
\* as an image may hold them: without the magic, empty, and within a few
\* records of the capacity (the header is read from the image as it comes).
NearFull(size) == {JOURNAL_BYTES - size + 4 * d : d \in (0 - Slack)..Slack}
UsedValues == {JH_SIZE} \cup NearFull(DATA_RECORD_SIZE) \cup NearFull(COMMIT_RECORD_SIZE)
JournalHeaders ==
  {journal_header(JOURNAL_MAGIC, u) : u \in UsedValues}
    \cup {journal_header(0, u) : u \in {0} \cup UsedValues}
Records == {data_record(INODE_BMAP_IDX, ZeroBlock), commit_record}

InitJournal ==
  /\ sb_magic = FS_MAGIC
  /\ jh \in JournalHeaders
  /\ journal = <<>> /\ disk = Formatted(1, 2) /\ base = Formatted(1, 2)
  /\ last = NoOp /\ nops = 0 /\ faulted = FALSE
  /\ AllocIdle
  /\ arg = NoRecord
  /\ torn = {} /\ aborted = {}

Unit(cmd, status, log) ==
  [NoOp EXCEPT !.cmd = cmd, !.status = status, !.log = log, !.pre_jh = jh,
               !.prev_cmd = last.cmd, !.prev_status = last.status]

\* init_journal_if_needed(fd, sb)
EnsureInitialized ==
  /\ nops < MaxOps /\ nops' = nops + 1
  /\ \E r \in {init_journal_if_needed(Process(0 - 1))} :
       /\ jh' = r.jh /\ journal' = r.journal /\ disk' = r.disk
       /\ last' = Unit("init", IF r.log = <<>> THEN "kept" ELSE "initialized", r.log)
  /\ arg' = NoRecord
  /\ UNCHANGED <<sb_magic, base, faulted, alloc_vars, track_vars>>

\* append_to_journal(fd, sb, &record, sizeof(record)), as cmd_create calls
\* it: after init_journal_if_needed
AppendOne(record) ==
  /\ nops < MaxOps /\ nops' = nops + 1
  /\ jh.magic = JOURNAL_MAGIC
  /\ \E r \in {append_to_journal(Process(0 - 1), record, record.size)} :
       /\ jh' = r.m.jh /\ journal' = r.m.journal /\ disk' = r.m.disk
       /\ last' = Unit("append", IF r.rc < 0 THEN "journal_full" ELSE "appended", r.m.log)
  /\ arg' = record
  /\ UNCHANGED <<sb_magic, base, faulted, alloc_vars, track_vars>>

NextJournal == EnsureInitialized \/ \E record \in Records : AppendOne(record)

SpecJournal == InitJournal /\ [][NextJournal]_vars

\* ===================================================== properties checked
\* Reading a journal as the format of section 6 lays it out, independently
\* of cmd_install: the offsets of the records from the header to `used`.
RECURSIVE RecordOffsets(_, _, _)
RecordOffsets(j, pos, used) ==
  IF ~(pos < used) \/ pos \notin DOMAIN j \/ j[pos].type \notin {REC_DATA, REC_COMMIT}
    THEN <<>>
    ELSE <<pos>> \o RecordOffsets(j, pos + j[pos].size, used)

\* the committed transactions, in order: each the offsets of its data records
RECURSIVE GroupsOf(_, _, _)
GroupsOf(j, offs, cur) ==
  IF offs = <<>> THEN <<>>
  ELSE IF j[Head(offs)].type = REC_COMMIT
    THEN <<cur>> \o GroupsOf(j, Tail(offs), <<>>)
    ELSE GroupsOf(j, Tail(offs), Append(cur, Head(offs)))
CommittedGroups(j, used) == GroupsOf(j, RecordOffsets(j, JH_SIZE, used), <<>>)

\* the data records after the last commit record: the uncommitted tail
UncommittedTail(j, used) ==
  LET offs == RecordOffsets(j, JH_SIZE, used)
  IN {offs[i] : i \in {n \in DOMAIN offs :
                         /\ j[offs[n]].type = REC_DATA
                         /\ \A k \in DOMAIN offs : k > n => j[offs[k]].type = REC_DATA}}

\* the live blocks after the data records at `offs` are applied in order
RECURSIVE ApplyRecords(_, _, _)
ApplyRecords(d, j, offs) ==
  IF offs = <<>> THEN d
  ELSE LET r == j[Head(offs)]
       IN ApplyRecords(IF r.block_no \in LiveBlocks THEN [d EXCEPT ![r.block_no] = r.data] ELSE d,
                       j, Tail(offs))

\* the live blocks after the groups chosen by `pick` are applied in order
RECURSIVE ApplyGroups(_, _, _, _, _)
ApplyGroups(d, j, groups, n, pick) ==
  IF n > Len(groups) THEN d
  ELSE ApplyGroups(IF n \in pick THEN ApplyRecords(d, j, groups[n]) ELSE d,
                   j, groups, n + 1, pick)

InJournalRegion(w) ==
  /\ JOURNAL_BLOCK_IDX * BLOCK_SIZE <= w.addr
  /\ w.addr + w.len <= (JOURNAL_BLOCK_IDX + JOURNAL_BLOCKS) * BLOCK_SIZE

Completed == {"applied", "empty"}
Seq2Set(q) == {q[i] : i \in DOMAIN q}
RootOf(d) == InodeAt(d[INODE_START_IDX], 0)
StepOf(cmd) == last'.cmd = cmd /\ nops' # nops

\* C1 -- Round trip: from an image with an empty journal, a successful
\* create(name) followed by an install leaves the new inode's bitmap bit set,
\* its table slot holding type=file, links=1, size=0, the root directory entry
\* at index old_root_size/32 holding the new inode and the name, the root
\* size grown by exactly 32, and the journal's bytes_used equal to 8.
C1_RoundTrip ==
  [][ ( /\ last.cmd = "create" /\ last.status = "created"
        /\ last.pre_jh = EmptyJournal
        /\ StepOf("install") /\ last'.status = "applied" )
      => LET ino == last.new_ino
             e == RootOf(disk).size \div DIRENT_SIZE
             dir == disk'[RootOf(disk).direct[1]]
         IN /\ BitIsSet(disk'[INODE_BMAP_IDX].bytes, ino)
            /\ LET i == InodeAt(disk'[INODE_START_IDX + (ino \div INODES_PER_BLOCK)],
                                ino % INODES_PER_BLOCK)
               IN i.type = FILE_TYPE /\ i.links = 1 /\ i.size = 0
            /\ e \in DOMAIN dir.ents
            /\ dir.ents[e] = [inode |-> ino, name |-> StoredName(last.name)]
            /\ RootOf(disk').size = RootOf(disk).size + DIRENT_SIZE
            /\ jh'.nbytes_used = JH_SIZE ]_vars

\* C2 -- Transactional atomicity: a create, whether it succeeds or fails,
\* writes only inside the journal region (blocks 1..16); the superblock, both
\* bitmaps, the inode table and every data block are as before the call.
C2_CreateWritesOnlyJournal ==
  [][ StepOf("create")
      => /\ sb_magic' = sb_magic
         /\ disk' = disk
         /\ \A i \in DOMAIN last'.log : InJournalRegion(last'.log[i]) ]_vars

C2_Witness ==
  /\ last.cmd = "create" /\ last.status = "created"
  /\ Len(last.log) = 10
  /\ jh.nbytes_used > last.pre_jh.nbytes_used

\* C3 -- Incomplete transaction discard: when the journal up to bytes_used
\* ends in data records that no commit record follows, an install that runs
\* to completion writes none of those records to the live blocks and resets
\* bytes_used to the header size (8).
C3_UncommittedTailDiscarded ==
  (last.cmd = "install" /\ last.status = "applied")
  => LET tail == UncommittedTail(journal, last.pre_jh.nbytes_used)
     IN tail # {}
        => /\ \A i \in DOMAIN last.log : last.log[i].src \notin tail
           /\ \A i \in DOMAIN last.log : InJournalRegion(last.log[i])
           /\ jh.nbytes_used = JH_SIZE

C3_Witness ==
  /\ last.cmd = "install" /\ last.status = "applied" /\ ~faulted
  /\ UncommittedTail(journal, last.pre_jh.nbytes_used) # {}
  /\ Len(CommittedGroups(journal, last.pre_jh.nbytes_used)) > 0

\* C4 -- Crash consistency: whatever create or install was cut short
\* before, an install that runs to completion leaves the live blocks as the
\* blocks at the last journal reset with some of the journal's committed
\* transactions applied whole, in order: each create is reflected entirely or
\* not at all, and nothing of a create that never committed is.
C4_AllOrNothing ==
  [][ (StepOf("install") /\ last'.status = "applied")
      => LET groups == CommittedGroups(journal, jh.nbytes_used)
         IN \E pick \in SUBSET (1..Len(groups)) :
              disk' = ApplyGroups(base, journal, groups, 1, pick) ]_vars

C4_Witness ==
  /\ last.cmd = "install" /\ last.status = "applied" /\ faulted
  /\ UncommittedTail(journal, last.pre_jh.nbytes_used) # {}
  /\ Len(CommittedGroups(journal, last.pre_jh.nbytes_used)) > 0

\* C5 -- Capacity exhaustion: when creates are repeated without an install,
\* the first create that fails for lack of journal space leaves bytes_used
\* exactly as it was before that create started.
C5_FullJournalUntouched ==
  ( /\ last.cmd = "create" /\ last.status = "journal_full"
    /\ last.prev_cmd = "create" /\ last.prev_status = "created" )
  => jh.nbytes_used = last.pre_jh.nbytes_used

\* C6 -- Corruption during replay: an install that reads a record of
\* neither the data nor the commit type stops scanning and leaves the journal
\* unmodified: bytes_used and the header are as before the install.
C6_UnknownRecordLeavesJournal ==
  (last.cmd = "install" /\ last.brk /\ last.status \in Completed)
  => jh = last.pre_jh

\* C7 -- Idempotent replay: an install run immediately after an install
\* that completed performs no write at all; the journal header and every
\* block of the image are unchanged by it.
C7_SecondInstallWritesNothing ==
  [][ ( /\ last.cmd = "install" /\ last.status \in Completed
        /\ StepOf("install") /\ last'.fault = "none" )
      => /\ last'.log = <<>>
         /\ UNCHANGED <<sb_magic, jh, journal, disk>> ]_vars

C7_Witness ==
  /\ last.cmd = "install" /\ last.status = "empty" /\ last.log = <<>>
  /\ last.prev_cmd = "install" /\ last.prev_status = "applied"
  /\ journal # <<>>

\* C8 -- Directory overflow guard: a create issued when the root directory
\* block is full (root size 4096, 128 entries) fails without appending any
\* journal record.
C8_FullDirectoryRejected ==
  ( /\ last.cmd = "create" /\ last.fault = "none"
    /\ last.entries >= DIR_CAPACITY )
  => /\ last.status # "created"
     /\ jh.nbytes_used = last.pre_jh.nbytes_used

\* C9 -- Exit status: the tool exits with 1 whenever the operation fails
\* for a validation, I/O or capacity reason (a full journal and no free inode
\* included), and with 0 only when the operation succeeded.
C9_ExitStatus ==
  /\ ( \/ last.status \in {"journal_full", "no_inode", "bad_sb", "bad_journal", "usage"}
       \/ (last.status = "stopped" /\ last.fault = "eio") )
     => last.exit = 1
  /\ last.exit = 0 => last.status \in {"none", "created", "applied", "empty"}

\* C10 -- Allocation ordering: find_free returns the lowest index below
\* the capacity whose bit is clear, or no slot when every bit below the
\* capacity is set, whatever the bits at or beyond the capacity are; after
\* that index is marked, a scan returns the next-lowest clear index.
Lowest(S) == IF S = {} THEN 0 - 1 ELSE CHOOSE i \in S : \A k \in S : i <= k
ClearBelow(cap) == {i \in 0..(cap - 1) : i \notin t_bits}

C10_LowestClearBit ==
  /\ t_pc \in {"found", "marked"} => t_found = Lowest(ClearBelow(t_cap))
  /\ t_pc = "marked" => t_next = Lowest(ClearBelow(t_cap) \ {t_found})

C10_Witness ==
  /\ t_pc = "marked" /\ t_found > 0 /\ t_next > t_found + 1
  /\ t_cap < MaxBits /\ t_cap \notin t_bits

\* C11 -- Journal append: append(record) fails and changes neither the
\* header nor any journal byte exactly when bytes_used + len(record) is
\* greater than the capacity (16 x 4096); otherwise, the sum equal to the
\* capacity included, it writes the record at offset bytes_used and increases
\* bytes_used by exactly len(record).
C11_AppendAtCapacity ==
  [][ StepOf("append")
      => LET used == jh.nbytes_used
             size == arg'.size
         IN IF used + size > JOURNAL_BLOCKS * BLOCK_SIZE
              THEN /\ last'.status = "journal_full"
                   /\ last'.log = <<>>
                   /\ UNCHANGED <<jh, journal, disk>>
              ELSE /\ last'.status = "appended"
                   /\ jh' = [jh EXCEPT !.nbytes_used = used + size]
                   /\ used \in DOMAIN journal' /\ journal'[used] = arg'
                   /\ \A p \in DOMAIN journal : p < used => p \in DOMAIN journal' /\ journal'[p] = journal[p]
                   /\ last'.log = << [addr |-> JOURNAL_BLOCK_IDX * BLOCK_SIZE + used,
                                      len |-> size, src |-> 0 - 1],
                                     [addr |-> JOURNAL_BLOCK_IDX * BLOCK_SIZE,
                                      len |-> JH_SIZE, src |-> 0 - 1] >>
                   /\ disk' = disk ]_vars

C11_Witness ==
  /\ last.cmd = "append" /\ last.status = "appended"
  /\ jh.nbytes_used = JOURNAL_BLOCKS * BLOCK_SIZE
  /\ arg.type = REC_DATA

\* C12 -- Journal bound invariant: from an initialized journal, after any
\* sequence of create and install operations (failed and interrupted ones
\* included) the persisted bytes_used lies between the header size (8) and
\* the journal capacity (16 x 4096), and every journal write lands inside
\* blocks 1..16.
C12_JournalBound ==
  /\ jh.magic = JOURNAL_MAGIC
       => JH_SIZE <= jh.nbytes_used /\ jh.nbytes_used <= JOURNAL_BLOCKS * BLOCK_SIZE
  /\ \A i \in DOMAIN last.log :
       last.log[i].src < 0
         => /\ JOURNAL_BLOCK_IDX * BLOCK_SIZE <= last.log[i].addr
            /\ last.log[i].addr + last.log[i].len
                 <= (JOURNAL_BLOCK_IDX + JOURNAL_BLOCKS) * BLOCK_SIZE

C12_Witness ==
  /\ last.cmd = "create" /\ last.status = "journal_full"
  /\ Len(last.log) = 6
  /\ jh.nbytes_used > last.pre_jh.nbytes_used
  /\ jh.nbytes_used + DATA_RECORD_SIZE > JOURNAL_BLOCKS * BLOCK_SIZE

\* the records from `pos` on are written whole, one after the other, up to
\* exactly `used`
RECURSIVE WrittenUpTo(_, _, _, _)
WrittenUpTo(j, t, pos, used) ==
  \/ pos = used
  \/ /\ pos < used
     /\ pos \in DOMAIN j /\ pos \notin t /\ j[pos].size > 0
     /\ WrittenUpTo(j, t, pos + j[pos].size, used)

\* C13 -- Append write ordering: within one append the record bytes are
\* written before the header is updated, so at every crash point inside
\* append the persisted bytes_used covers only records that were written
\* completely; a record written in part or in full but not yet counted in
\* bytes_used is never read by install.
C13_RecordBeforeHeader ==
  /\ jh.magic = JOURNAL_MAGIC => WrittenUpTo(journal, torn, JH_SIZE, jh.nbytes_used)
  /\ last.cmd = "create"
       => \A i \in DOMAIN last.log :
            (i > 1 /\ last.log[i].addr = JOURNAL_BLOCK_IDX * BLOCK_SIZE)
              => /\ last.log[i - 1].addr > JOURNAL_BLOCK_IDX * BLOCK_SIZE
                 /\ i = Len(last.log)
                      => last.log[i - 1].addr + last.log[i - 1].len
                           = JOURNAL_BLOCK_IDX * BLOCK_SIZE + jh.nbytes_used
  /\ last.cmd = "install"
       => \A i \in DOMAIN last.reads :
            /\ last.reads[i] < last.pre_jh.nbytes_used
            /\ last.reads[i] \notin torn

C13_Witness ==
  /\ last.cmd = "install" /\ last.status = "applied" /\ last.reads # <<>>
  /\ last.prev_cmd = "create" /\ last.prev_status = "stopped"
  /\ \E p \in DOMAIN journal : p >= last.pre_jh.nbytes_used /\ p \in torn

\* the image an install run to its end leaves
InstallOutcome(h, j, d) ==
  LET r == cmd_install(Started(h, j, d, 0 - 1, {}))
  IN <<r.m.jh, r.m.journal, r.m.disk>>

\* C14 -- Interrupted install is re-runnable: during install no journal
\* byte and no header field is modified before the final header reset, so
\* an install interrupted before that reset and then re-run from the start
\* to completion leaves the same live blocks and the same journal as a
\* single uninterrupted install.
C14_InstallRerunnable ==
  [][ StepOf("install")
      => /\ journal' = journal
         /\ \A i \in DOMAIN last'.log : last'.log[i].src < 0 => i = Len(last'.log)
         /\ last'.status = "stopped"
              => /\ jh' = jh
                 /\ InstallOutcome(jh', journal', disk') = InstallOutcome(jh, journal, disk) ]_vars

C14_Witness ==
  /\ last.cmd = "install" /\ last.status = "applied" /\ last.reads # <<>>
  /\ last.prev_cmd = "install" /\ last.prev_status = "stopped"
  /\ jh = EmptyJournal

\* C15 -- Aborted tail is never applied: data records appended by a create
\* that did not reach its commit record (it found the journal full or was
\* interrupted) are never written to the live blocks by a later install,
\* also when a later create has appended its own data records and commit
\* record after them.
C15_AbortedTailNeverApplied ==
  last.cmd = "install"
    => \A i \in DOMAIN last.log :
         /\ last.log[i].src \notin aborted
         /\ last.log[i].src \notin torn

C15_Witness ==
  /\ last.cmd = "install" /\ last.status = "applied"
  /\ last.prev_cmd = "create" /\ last.prev_status = "created"
  /\ \E p \in aborted, q \in DOMAIN journal :
       /\ p < q /\ q < last.pre_jh.nbytes_used
       /\ journal[q].type = REC_COMMIT
       /\ p \in Seq2Set(last.reads)

\* bytes_used when the create last run made its first append
UsedBefore == IF last.pre_jh.magic = JOURNAL_MAGIC THEN last.pre_jh.nbytes_used ELSE JH_SIZE

C17_NoInodeNoJournalWrite ==
  (last.cmd = "create" /\ last.status = "no_inode")
    => last.log = <<>> /\ jh = last.pre_jh

\* C18 -- ensure_initialized is idempotent and non-destructive: when the
\* header carries the journal magic it writes nothing and bytes_used is
\* kept; when the magic is wrong it writes the magic and bytes_used = 8;
\* run twice in a row it leaves the journal as one run does.
C18_EnsureInitialized ==
  [][ StepOf("init")
      => /\ jh.magic = JOURNAL_MAGIC
              => last'.log = <<>> /\ UNCHANGED <<jh, journal, disk>>
         /\ jh.magic # JOURNAL_MAGIC
              => /\ jh' = [magic |-> JOURNAL_MAGIC, nbytes_used |-> JH_SIZE]
                 /\ Len(last'.log) = 1 /\ InJournalRegion(last'.log[1])
                 /\ UNCHANGED <<journal, disk>>
         /\ last.cmd = "init"
              => last'.log = <<>> /\ UNCHANGED <<jh, journal, disk>> ]_vars

C18_Witness ==
  /\ last.cmd = "init" /\ last.status = "kept"
  /\ last.prev_cmd = "init" /\ last.prev_status = "initialized"
  /\ jh = EmptyJournal

\* the data records of the create last run, in the order it appended them
CreateRecord(n) == journal[UsedBefore + (n - 1) * DATA_RECORD_SIZE]

\* C19 -- Implicit: within one committed create transaction, for every
\* target block the last data record journaled for that block carries all
\* changes the transaction makes to that block; in particular, when the new
\* inode lies in the root inode's table block (inode number below 32), the
\* last journaled image of that block holds both the new inode and the root
\* inode with its size increased by 32.
C19_LastImageCarriesAll ==
  (last.cmd = "create" /\ last.status = "created")
    => /\ \A n \in 1..4, k \in 1..4 :
            ( /\ n < k
              /\ CreateRecord(n).block_no = CreateRecord(k).block_no
              /\ CreateRecord(n).block_no \in LiveBlocks )
              => \A s \in DOMAIN CreateRecord(n).data.inodes :
                   CreateRecord(n).data.inodes[s] # InodeAt(disk[CreateRecord(n).block_no], s)
                     => InodeAt(CreateRecord(k).data, s) = CreateRecord(n).data.inodes[s]
       /\ last.new_ino < INODES_PER_BLOCK
            => /\ InodeAt(CreateRecord(4).data, last.new_ino).type = FILE_TYPE
               /\ InodeAt(CreateRecord(4).data, last.new_ino).links = 1
               /\ InodeAt(CreateRecord(4).data, 0).size = RootOf(disk).size + DIRENT_SIZE

\* C20 -- Implicit: two successful creates with no install between them
\* journal different new inode numbers and different root-directory entry
\* indices, so that the committed transactions in the journal describe two
\* distinct files and the second transaction's block images keep the first
\* transaction's changes.
C20_SecondCreateDistinct ==
  [][ ( /\ last.cmd = "create" /\ last.status = "created"
        /\ StepOf("create") /\ last'.status = "created" )
      => /\ last'.new_ino # last.new_ino
         /\ last'.entries # last.entries
         /\ BitIsSet(journal'[jh.nbytes_used].data.bytes, last.new_ino) ]_vars

====
